---- MODULE Spec2Model ----
(***************************************************************************)
(* Model of the live-tick broadcast component of the gold dashboard:       *)
(* WebSocketManager (src/app/services/websocket.py), the router's          *)
(* websocket_endpoint (src/app/routers/websocket.py) and the price         *)
(* callback that feeds it (src/app/services/capital.py, _safe_callback).   *)
(*                                                                         *)
(* Every coroutine is a task.  A task runs without interruption from one   *)
(* await to the next (asyncio runs one task at a time), so each action of  *)
(* the model resumes one task at the await it is suspended on and runs it  *)
(* to its next await.  The awaits are websocket.accept, websocket.close,   *)
(* websocket.send_text, websocket.receive_text and asyncio.sleep.          *)
(*                                                                         *)
(* The upstream client, CapitalAPIService._streaming_loop with             *)
(* _subscribe_to_gold and _handle_websocket_message, is a task of its own  *)
(* (loop), whose awaits are websockets.connect, the subscription reply,    *)
(* the next frame and asyncio.sleep.  stop_streaming and cleanup of the    *)
(* service run in a task of their own (StopTask).                          *)
(*                                                                         *)
(* GoldDataFetcher._fetch_for_epic (src/app/services/data_fetcher.py) is   *)
(* one more task (fetch), and RateLimitMiddleware.dispatch                 *)
(* (src/app/middleware/rate_limit.py) handles each request in one step     *)
(* (limiter).                                                              *)
(*                                                                         *)
(* A connection id is the number of the client socket it was created for   *)
(* (uuid4 never repeats, and each client socket connects once).  A tick is *)
(* the ordinal of its normalisation, which stands for its price_data.      *)
(***************************************************************************)
EXTENDS Integers, Sequences, FiniteSets, TLC

\* ---------------------------------------------------------------- bounds
NClients == 2          \* client sockets that try to connect
MaxConnCfg == 2        \* WEBSOCKET_MAX_CONNECTIONS is drawn from 1..MaxConnCfg
MaxHistCfg == 1        \* MAX_PRICE_HISTORY under Spec
MaxTicks == 2          \* ticks the upstream feed delivers (Spec)
MaxMsgs == 1           \* client messages handled per connection
MaxClock == 1          \* clock advances (Spec)
HistExtra == 2         \* ticks fed beyond the buffer's capacity (SpecHist)
MaxSweepClock == 2     \* clock advances (SpecSweep)
MaxFrames == 2         \* frames the upstream socket delivers (SpecStream)
MaxStarts == 2         \* start_streaming calls (SpecStop)
MaxCtl == 2            \* client messages handled per connection (SpecActive)
MaxPagesCfg == 2       \* max_pages is drawn from 1..MaxPagesCfg (SpecFetch)
MaxFetchRequests == 4  \* HTTP page requests one fetch may issue (SpecFetch)
CallsPerMinuteCfg == 2 \* calls_per_minute of the middleware (SpecLimit)
MaxRlRequests == 4     \* requests the middleware sees (SpecLimit)
MaxRlClock == 3        \* advances of time.time() (SpecLimit)

\* ------------------------------------------------------ program constants
HISTORY_HARD_LIMIT == 1000     \* min(params.get("limit", 100), 1000)
DEFAULT_LIMIT == 100           \* params.get("limit", 100)
REPLAY_LIMIT == 50             \* self._price_history[-50:]
SWEEP_INTERVAL == 60           \* asyncio.sleep(60)
STALE_AFTER == 300             \* total_seconds() > 300
CLOSE_NORMAL == 1000           \* websocket.close() default code
CLOSE_POLICY == 1008           \* websocket.close(code=1008, ...)
MAX_RETRIES == 5               \* max_retries = 5
INITIAL_DELAY == 1             \* retry_delay = 1
MAX_DELAY == 60                \* min(retry_delay * 2, 60)
RATE_WINDOW == 60              \* cutoff_time = current_time - 60

None == 0                      \* Python None (ids and times are >= 1)
FeedTask == -1                 \* the upstream read loop's price callback
SweepTask == -2                \* WebSocketManager._cleanup_loop
ShutdownTask == -3             \* the caller of WebSocketManager.cleanup
StopTask == -4                 \* the caller of stop_streaming or cleanup

Clients == 1..NClients
Tasks == Clients \cup {FeedTask, SweepTask, ShutdownTask, StopTask}

VARIABLES
    max_connections,    \* WebSocketManager._max_connections
    max_price_history,  \* WebSocketManager._max_price_history
    connections,        \* WebSocketManager.connections: keys in insertion order
    connection_info,    \* WebSocketManager.connection_info: records in insertion order
    price_history,      \* WebSocketManager._price_history
    ws,                 \* state of each client's socket
    closeCode,          \* close code the server sent on each socket (None: none)
    sent,               \* messages delivered to each client socket, in order
    task,               \* each task: the await it is suspended on and its locals
    now,                \* datetime.now()
    nticks,             \* ticks normalised so far
    nmsgs,              \* client messages handled, per client
    nclock,             \* clock advances so far
    capital,            \* CapitalAPIService: _is_streaming, websocket
    loop,               \* the _streaming_loop task: its await and its locals
    upstream,           \* the broker's side: the socket, and what was observed
    fetch,              \* one call of GoldDataFetcher._fetch_for_epic
    limiter             \* RateLimitMiddleware, its clock, and what it let through

streamVars == <<capital, loop, upstream>>
otherVars == <<fetch, limiter>>
vars == <<max_connections, max_price_history, connections, connection_info,
          price_history, ws, closeCode, sent, task, now, nticks, nmsgs, nclock,
          capital, loop, upstream, fetch, limiter>>

\* ---------------------------------------------------------------- helpers
Min(a, b) == IF a < b THEN a ELSE b
Max(a, b) == IF a > b THEN a ELSE b
SeqSet(s) == {s[i] : i \in 1..Len(s)}
Remove(s, x) == SelectSeq(s, LAMBDA y : y # x)
Loc(s, t) == s.task[t].loc
SetLoc(s, t, loc) == [s EXCEPT !.task[t].loc = loc]

\* Python's lst[-n:] for every integer n: a start index of -n, where a
\* negative start counts from the end and -0 is 0 (the whole list).
TailSlice(lst, n) ==
    LET len == Len(lst)
        start == IF -n < 0 THEN Max(len - n, 0) ELSE Min(-n, len)
    IN  SubSeq(lst, start + 1, len)

InfoKeys(info) == {info[i].id : i \in 1..Len(info)}
InfoDel(info, id) == SelectSeq(info, LAMBDA r : r.id # id)

\* WebSocketMessage: type and data (the timestamp is datetime.now())
Msg(type, data) == [type |-> type, data |-> data]

\* The manager's state and the tasks as one record, so that the code run
\* between two awaits is a composition of functions on it.
Cur == [connections |-> connections, connection_info |-> connection_info,
        price_history |-> price_history, ws |-> ws, closeCode |-> closeCode,
        sent |-> sent, task |-> task, now |-> now]

Apply(s) ==
    /\ connections' = s.connections
    /\ connection_info' = s.connection_info
    /\ price_history' = s.price_history
    /\ ws' = s.ws
    /\ closeCode' = s.closeCode
    /\ sent' = s.sent
    /\ task' = s.task

Suspend(s, t, pc, k, inSend, id) ==
    [s EXCEPT !.task[t] = [@ EXCEPT !.pc = pc, !.k = k, !.inSend = inSend, !.id = id]]

\* the task leaves its calls and waits at pc (receive_text, sleep, the next
\* tick) or has ended
Rest(s, t, pc) ==
    [s EXCEPT !.task[t] = [@ EXCEPT !.pc = pc, !.k = "none", !.inSend = FALSE, !.id = None]]

\* ------------------------------------------------------- the client sockets
\* websocket.close(code): sends the close frame if the socket is not closed
\* yet; on a socket that is already closed it raises, which disconnect
\* catches (lines 95-98), so either way the caller goes on.
CloseSocket(s, id, code) ==
    IF s.ws[id] \in {"connecting", "open"}
    THEN [s EXCEPT !.ws[id] = "closed", !.closeCode[id] = code]
    ELSE s

\* websocket.send_text succeeds on an open socket and raises on any other.
CanSend(s, id) == s.ws[id] = "open"

Deliver(s, id, msg) == [s EXCEPT !.sent[id] = Append(@, msg)]

\* ------------------------------------------------- WebSocketManager, by await
RECURSIVE Cont(_, _, _, _), Raise(_, _, _), Disconnect(_, _, _, _, _),
          SendMessage(_, _, _, _, _), BroadcastLoop(_, _), BroadcastClean(_, _),
          SweepLoop(_, _), CleanupLoop(_, _)

\* mutant: disconnect forgets the info record (lines 101-102)
DisconnectKeepsInfo(s, t, id, inSend, k, afterClose) ==
    IF afterClose /\ id \notin SeqSet(s.connections)
    THEN Raise(s, t, k)
    ELSE Cont([s EXCEPT !.connections = Remove(@, id)], t, k, ~inSend)

\* disconnect, lines 100-106: the code after `await websocket.close()`.
\* `del self.connections[connection_id]` raises KeyError when another task
\* removed the id while this one was suspended in close().
DisconnectTail(s, t, id, inSend, k, afterClose) ==
    IF afterClose /\ id \notin SeqSet(s.connections)
    THEN Raise(s, t, k)
    ELSE LET s1 == [s EXCEPT !.connections = Remove(@, id),
                             !.connection_info = InfoDel(@, id)]
         IN  Cont(s1, t, k, ~inSend)

\* mutant: disconnect without the membership test of line 92
DisconnectUnguarded(s, t, id, inSend, k) ==
    Suspend(CloseSocket(s, id, CLOSE_NORMAL), t, "close_wait", k, inSend, id)

\* disconnect, lines 90-96: up to `await websocket.close()`.  inSend tells
\* that send_message's except clause is the caller, which then returns False.
Disconnect(s, t, id, inSend, k) ==
    IF id \in SeqSet(s.connections)
    THEN Suspend(CloseSocket(s, id, CLOSE_NORMAL), t, "close_wait", k, inSend, id)
    ELSE DisconnectTail(s, t, id, inSend, k, FALSE)

\* send_message, lines 108-131: up to `await websocket.send_text(...)`, or,
\* when that raises, into disconnect.
SendMessage(s, t, id, msg, k) ==
    IF id \notin SeqSet(s.connections)
    THEN Cont(s, t, k, FALSE)
    ELSE IF CanSend(s, id)
         THEN Suspend(Deliver(s, id, msg), t, "send_wait", k, FALSE, id)
         ELSE Disconnect(s, t, id, TRUE, k)

\* mutant: the replay goes to every open connection, as a broadcast would
SendPriceHistoryToAll(s, t, id, k) ==
    LET msg == Msg("price_history", TailSlice(s.price_history, REPLAY_LIMIT))
        s1 == [s EXCEPT !.sent =
                  [d \in DOMAIN @ |->
                      IF d # id /\ d \in SeqSet(s.connections) /\ s.ws[d] = "open"
                      THEN Append(@[d], msg) ELSE @[d]]]
    IN  IF s.price_history # <<>> THEN SendMessage(s1, t, id, msg, k)
        ELSE Cont(s, t, k, TRUE)

\* mutant: the replay is the whole buffer, not its last 50 entries
SendPriceHistoryWhole(s, t, id, k) ==
    IF s.price_history # <<>>
    THEN SendMessage(s, t, id, Msg("price_history", s.price_history), k)
    ELSE Cont(s, t, k, TRUE)

\* _send_price_history, lines 260-273
SendPriceHistory(s, t, id, k) ==
    IF s.price_history # <<>>
    THEN SendMessage(s, t, id,
                     Msg("price_history", TailSlice(s.price_history, REPLAY_LIMIT)), k)
    ELSE Cont(s, t, k, TRUE)

\* The dict iterator of `for connection_id in self.connections` (line 141):
\* the next key, "stop" at the end, or "error" (RuntimeError) when the dict
\* changed size since the loop began or holds more keys than it had.
DictIterNext(conns, used, visited) ==
    IF Len(conns) # used THEN [kind |-> "error", key |-> None]
    ELSE LET rest == SelectSeq(conns, LAMBDA x : x \notin visited)
         IN  IF rest = <<>> THEN [kind |-> "stop", key |-> None]
             ELSE IF Cardinality(visited) >= used
                  THEN [kind |-> "error", key |-> None]
                  ELSE [kind |-> "key", key |-> Head(rest)]

\* broadcast, lines 141-146: one turn of the loop, up to the send's await.
BroadcastLoop(s, t) ==
    LET loc == Loc(s, t)
        nxt == DictIterNext(s.connections, loc.used, loc.visited)
    IN  IF nxt.kind = "error" THEN Raise(s, t, "bcast")
        ELSE IF nxt.kind = "stop" THEN BroadcastClean(s, t)
        ELSE SendMessage(SetLoc(s, t, [loc EXCEPT !.visited = @ \cup {nxt.key},
                                                  !.cur = nxt.key]),
                         t, nxt.key,
                         Msg("gold_price_update", <<loc.tick>>), "bcast")

\* broadcast, lines 148-152: disconnect the failed connections, then return.
BroadcastClean(s, t) ==
    LET loc == Loc(s, t)
    IN  IF loc.failed = <<>>
        THEN Rest(SetLoc(s, t, [loc EXCEPT !.outcome = "ok"]), t, "idle")
        ELSE Disconnect(SetLoc(s, t, [loc EXCEPT !.failed = Tail(@)]),
                        t, Head(loc.failed), FALSE, "bclean")

\* _cleanup_loop, lines 326-329, then back to asyncio.sleep(60) (line 315).
\* loc.stale is what the for loop has yet to visit of stale_connections.
SweepLoop(s, t) ==
    LET loc == Loc(s, t)
    IN  IF loc.stale = <<>>
        THEN Rest(SetLoc(s, t, [loc EXCEPT !.wakeAt = s.now + SWEEP_INTERVAL]),
                  t, "sleep")
        ELSE Disconnect(SetLoc(s, t, [loc EXCEPT !.stale = Tail(@)]),
                        t, Head(loc.stale), FALSE, "sweep")

\* cleanup, lines 50-53: disconnect every connection of the snapshot
\* list(self.connections.keys()), one after the other.
CleanupLoop(s, t) ==
    LET loc == Loc(s, t)
    IN  IF loc.todo = <<>>
        THEN Rest(SetLoc(s, t, [loc EXCEPT !.outcome = "ok"]), t, "done")
        ELSE Disconnect(SetLoc(s, t, [loc EXCEPT !.todo = Tail(@)]),
                        t, Head(loc.todo), FALSE, "cleanup")

\* What runs when a call made at the place k returns res.
Cont(s, t, k, res) ==
    CASE k = "welcome" -> SendPriceHistory(s, t, t, "replay")
      [] k = "replay" ->
            \* connect returns the id to the endpoint, which awaits receive_text
            Rest(SetLoc(s, t, [Loc(s, t) EXCEPT !.connection_id = t,
                                                !.outcome = "returned"]), t, "recv")
      [] k = "handler" -> Rest(s, t, "recv")
      [] k \in {"start", "stop"} ->
            \* lines 289-291 and 307-309
            Rest([s EXCEPT !.connection_info =
                     [i \in 1..Len(@) |->
                         IF @[i].id = t
                         THEN [@[i] EXCEPT !.is_active = (k = "start")]
                         ELSE @[i]]], t, "recv")
      [] k = "final" -> Rest(s, t, "done")
      [] k = "bcast" ->
            \* lines 143-146
            BroadcastLoop(
                SetLoc(s, t,
                       IF res THEN [Loc(s, t) EXCEPT !.ok = @ + 1]
                       ELSE [Loc(s, t) EXCEPT !.failed = Append(@, Loc(s, t).cur)]), t)
      [] k = "bclean" -> BroadcastClean(s, t)
      [] k = "sweep" -> SweepLoop(s, t)
      [] k = "cleanup" -> CleanupLoop(s, t)

\* mutant: an error raised while sweeping ends the loop
SweepErrorEndsLoop(s, t) ==
    Rest(SetLoc(s, t, [Loc(s, t) EXCEPT !.errors = @ + 1]), t, "done")

\* _cleanup_loop, lines 333-334: the error is logged and the loop goes on
\* with the next asyncio.sleep(60) (line 315)
SweepError(s, t) ==
    Rest(SetLoc(s, t, [Loc(s, t) EXCEPT !.wakeAt = s.now + SWEEP_INTERVAL,
                                        !.errors = @ + 1]),
         t, "sleep")

\* What runs when an exception leaves a call made at the place k.
Raise(s, t, k) ==
    CASE k \in {"welcome", "replay"} ->
            \* connect raises: the endpoint logs it; connection_id is None,
            \* so its finally clause does not call disconnect
            Rest(SetLoc(s, t, [Loc(s, t) EXCEPT !.outcome = "raised"]), t, "done")
      [] k \in {"handler", "start", "stop"} ->
            \* handle_client_message, lines 211-212
            Rest(s, t, "recv")
      [] k = "final" ->
            Rest(SetLoc(s, t, [Loc(s, t) EXCEPT !.outcome = "raised"]), t, "done")
      [] k \in {"bcast", "bclean"} ->
            \* _safe_callback, capital.py lines 420-421
            Rest(SetLoc(s, t, [Loc(s, t) EXCEPT !.outcome = "raised"]), t, "idle")
      [] k = "sweep" -> SweepError(s, t)
      [] k = "cleanup" ->
            \* the exception leaves cleanup (no handler in lines 41-53)
            Rest(SetLoc(s, t, [Loc(s, t) EXCEPT !.outcome = "raised"]), t, "done")

\* ------------------------------------------------------------------ actions
\* mutant: the capacity check admits one connection too many
ConnectOffByOne(s, c, maxc) ==
    IF Len(s.connections) > maxc
    THEN Suspend(CloseSocket(s, c, CLOSE_POLICY), c, "refuse_wait", "none", FALSE, c)
    ELSE Suspend([s EXCEPT !.ws[c] = "open"], c, "accept_wait", "none", FALSE, c)

\* connect, lines 55-62: the capacity check, then close(1008) or accept().
Connect(s, c, maxc) ==
    IF Len(s.connections) >= maxc
    THEN Suspend(CloseSocket(s, c, CLOSE_POLICY), c, "refuse_wait", "none", FALSE, c)
    ELSE Suspend([s EXCEPT !.ws[c] = "open"], c, "accept_wait", "none", FALSE, c)

\* connect, lines 64-83: register, then send the welcome message.
ConnectRegister(s, c) ==
    LET s1 == [s EXCEPT !.connections = Append(@, c),
                        !.connection_info =
                            Append(@, [id |-> c, connected_at |-> s.now,
                                       last_ping |-> None, is_active |-> TRUE])]
    IN  SendMessage(s1, c, c, Msg("connection_established", <<c>>), "welcome")

\* websocket_endpoint calls connect (routers/websocket.py line 24)
ConnectCall(c) ==
    /\ task[c].pc = "start"
    /\ Apply(Connect(Cur, c, max_connections))
    /\ UNCHANGED <<otherVars, streamVars, max_connections, max_price_history, now, nticks, nmsgs, nclock>>

\* close(1008) returns; connect raises (line 60); the endpoint's finally
\* clause finds connection_id None (routers/websocket.py lines 34-39)
ResumeRefuse(c) ==
    /\ task[c].pc = "refuse_wait"
    /\ task' = Rest(SetLoc(Cur, c, [task[c].loc EXCEPT !.outcome = "refused"]),
                     c, "done").task
    /\ UNCHANGED <<otherVars, streamVars, max_connections, max_price_history, connections, connection_info,
                   price_history, ws, closeCode, sent, now, nticks, nmsgs, nclock>>

\* accept() returns
ResumeAccept(c) ==
    /\ task[c].pc = "accept_wait"
    /\ Apply(ConnectRegister(Cur, c))
    /\ UNCHANGED <<otherVars, streamVars, max_connections, max_price_history, now, nticks, nmsgs, nclock>>

\* send_text returns: send_message returns True (line 121)
ResumeSend(t) ==
    /\ task[t].pc = "send_wait"
    /\ Apply(Cont(Cur, t, task[t].k, TRUE))
    /\ UNCHANGED <<otherVars, streamVars, max_connections, max_price_history, now, nticks, nmsgs, nclock>>

\* close() returns inside disconnect (line 96)
ResumeClose(t) ==
    /\ task[t].pc = "close_wait"
    /\ ~(t = SweepTask /\ task[t].loc.cancelled)
    /\ Apply(DisconnectTail(Cur, t, task[t].id, task[t].inSend, task[t].k, TRUE))
    /\ UNCHANGED <<otherVars, streamVars, max_connections, max_price_history, now, nticks, nmsgs, nclock>>

\* dict.get(key, default)
DictGet(params, key, default) ==
    IF key \in DOMAIN params THEN params[key] ELSE default

\* _handle_get_price_history, lines 247-249
HistoryFor(history, params) ==
    LET limit == Min(DictGet(params, "limit", DEFAULT_LIMIT), HISTORY_HARD_LIMIT)
    IN  IF history # <<>> THEN TailSlice(history, limit) ELSE <<>>

\* mutant: the heartbeat is recorded on every connection's record
HandlePingAll(s, c) ==
    LET s1 == [s EXCEPT !.connection_info =
                  [i \in 1..Len(@) |-> [@[i] EXCEPT !.last_ping = s.now]]]
    IN  SendMessage(s1, c, c, Msg("pong", <<>>), "handler")

\* _handle_ping, lines 214-221
HandlePing(s, c) ==
    LET s1 == [s EXCEPT !.connection_info =
                  [i \in 1..Len(@) |->
                      IF @[i].id = c THEN [@[i] EXCEPT !.last_ping = s.now]
                      ELSE @[i]]]
    IN  SendMessage(s1, c, c, Msg("pong", <<>>), "handler")

\* handle_client_message, lines 186-212, and the handlers it calls
HandleClientMessage(s, c, m) ==
    CASE m.type = "ping" -> HandlePing(s, c)
      [] m.type = "get_current_price" ->
            SendMessage(s, c, c,
                        Msg("current_price",
                            IF s.price_history # <<>>
                            THEN <<s.price_history[Len(s.price_history)]>>
                            ELSE <<>>), "handler")
      [] m.type = "get_price_history" ->
            SendMessage(s, c, c,
                        Msg("price_history", HistoryFor(s.price_history, m.data)),
                        "handler")
      [] m.type = "start_streaming" ->
            SendMessage(s, c, c, Msg("streaming_started", <<>>), "start")
      [] m.type = "stop_streaming" ->
            SendMessage(s, c, c, Msg("streaming_stopped", <<>>), "stop")
      [] OTHER -> s

\* receive_text returns a client message (routers/websocket.py lines 28-29)
Receive(c, m) ==
    /\ task[c].pc = "recv"
    /\ ws[c] = "open"
    /\ Apply(HandleClientMessage(SetLoc(Cur, c, [task[c].loc EXCEPT !.message = m]), c, m))
    /\ nmsgs' = [nmsgs EXCEPT ![c] = @ + 1]
    /\ UNCHANGED <<otherVars, streamVars, max_connections, max_price_history, now, nticks, nclock>>

\* receive_text raises WebSocketDisconnect on a closed socket; the finally
\* clause calls disconnect (routers/websocket.py lines 31-39)
RecvDisconnect(c) ==
    /\ task[c].pc = "recv"
    /\ ws[c] # "open"
    /\ Apply(Disconnect(Cur, c, task[c].loc.connection_id, FALSE, "final"))
    /\ UNCHANGED <<otherVars, streamVars, max_connections, max_price_history, now, nticks, nmsgs, nclock>>

\* the client goes away
ClientClose(c) ==
    /\ ws[c] = "open"
    /\ ws' = [ws EXCEPT ![c] = "peer_closed"]
    /\ UNCHANGED <<otherVars, streamVars, max_connections, max_price_history, connections, connection_info,
                   price_history, closeCode, sent, task, now, nticks, nmsgs, nclock>>

\* mutant: a full buffer drops the new tick instead of the oldest
AppendHistoryDropsNewest(history, tick, maxh) ==
    IF Len(history) >= maxh THEN history ELSE Append(history, tick)

\* broadcast_price_update, lines 170-174: append, keep the last maxh
AppendHistory(history, tick, maxh) ==
    LET h == Append(history, tick)
    IN  IF Len(h) > maxh THEN TailSlice(h, maxh) ELSE h

\* broadcast_price_update, lines 154-181, and broadcast, lines 133-139
BroadcastPriceUpdate(s, t, tick, maxh) ==
    LET s1 == [s EXCEPT !.price_history = AppendHistory(@, tick, maxh)]
    IN  IF s1.connections = <<>>
        THEN Rest(SetLoc(s1, t, [used |-> 0, visited |-> {}, ok |-> 0,
                                 failed |-> <<>>, atStart |-> {}, tick |-> tick,
                                 cur |-> None, outcome |-> "ok"]), t, "idle")
        ELSE BroadcastLoop(
                 SetLoc(s1, t, [used |-> Len(s1.connections), visited |-> {},
                                ok |-> 0, failed |-> <<>>,
                                atStart |-> SeqSet(s1.connections), tick |-> tick,
                                cur |-> None, outcome |-> "running"]), t)

\* the upstream read loop hands the next tick to the price callback
\* (capital.py lines 292-293, 395-396, 413-421)
Tick ==
    /\ task[FeedTask].pc = "idle"
    /\ nticks' = nticks + 1
    /\ Apply(BroadcastPriceUpdate(Cur, FeedTask, nticks + 1, max_price_history))
    /\ UNCHANGED <<otherVars, streamVars, max_connections, max_price_history, now, nmsgs, nclock>>

\* _cleanup_loop, lines 317-324
StaleConnections(info, time) ==
    LET stale == SelectSeq(info,
            LAMBDA r : time - (IF r.last_ping # None THEN r.last_ping
                               ELSE r.connected_at) > STALE_AFTER)
    IN  [i \in 1..Len(stale) |-> stale[i].id]

\* asyncio.sleep(60) returns (line 315); the sweep runs to its first await
SweeperWake ==
    /\ task[SweepTask].pc = "sleep"
    /\ ~task[SweepTask].loc.cancelled
    /\ now >= task[SweepTask].loc.wakeAt
    /\ Apply(SweepLoop(SetLoc(Cur, SweepTask,
                 [task[SweepTask].loc EXCEPT
                     !.now = now,
                     !.stale_connections = StaleConnections(connection_info, now),
                     !.stale = StaleConnections(connection_info, now)]), SweepTask))
    /\ UNCHANGED <<otherVars, streamVars, max_connections, max_price_history, now, nticks, nmsgs, nclock>>

\* cleanup, lines 41-51: request the sweeper's cancellation (Task.cancel
\* only marks the task; CancelledError is thrown into it when it next
\* runs), then start disconnecting the connections.
CleanupCall ==
    /\ task[ShutdownTask].pc = "start"
    /\ LET s1 == SetLoc(Cur, SweepTask, [task[SweepTask].loc EXCEPT !.cancelled = TRUE])
           s2 == SetLoc(s1, ShutdownTask,
                        [task[ShutdownTask].loc EXCEPT !.todo = connections])
       IN  Apply(CleanupLoop(s2, ShutdownTask))
    /\ UNCHANGED <<otherVars, streamVars, max_connections, max_price_history, now, nticks, nmsgs, nclock>>

\* CancelledError is thrown into _cleanup_loop at the await it is suspended
\* on: asyncio.sleep (line 315) or, inside disconnect, websocket.close
\* (line 96), whose `except Exception` does not catch it; line 331 breaks.
SweeperCancelled ==
    /\ task[SweepTask].pc \in {"sleep", "close_wait"}
    /\ task[SweepTask].loc.cancelled
    /\ task' = Rest(Cur, SweepTask, "done").task
    /\ UNCHANGED <<otherVars, streamVars, max_connections, max_price_history, connections, connection_info,
                   price_history, ws, closeCode, sent, now, nticks, nmsgs, nclock>>

\* receive_text returns a frame the client had sent before the server
\* closed the socket (routers/websocket.py lines 28-29)
ReceiveLate(c, m) ==
    /\ task[c].pc = "recv"
    /\ ws[c] = "closed"
    /\ Apply(HandleClientMessage(SetLoc(Cur, c, [task[c].loc EXCEPT !.message = m]), c, m))
    /\ nmsgs' = [nmsgs EXCEPT ![c] = @ + 1]
    /\ UNCHANGED <<otherVars, streamVars, max_connections, max_price_history, now, nticks, nclock>>

\* time passes
AdvanceClock(d) ==
    /\ now' = now + d
    /\ nclock' = nclock + 1
    /\ UNCHANGED <<otherVars, streamVars, max_connections, max_price_history, connections, connection_info,
                   price_history, ws, closeCode, sent, task, nticks, nmsgs>>

\* ------------------------------------------- CapitalAPIService, by await
\* gold_epics (capital.py line 318), tried in this order
GoldEpics == <<"GOLD", "CS.D.CFEGOLD.CFE.IP", "XAU/USD", "XAUUSD">>

\* Prices are counted in quarters of a unit, and the sample quote is
\* bid 1900.0, ask 1900.5; a field is None when the payload lacks it (or
\* holds a zero: both are falsy at line 380) and Unusable when float()
\* rejects its value.
Unusable == -1
BidSample == 4 * 1900
AskSample == 4 * 1900 + 2
NoFrame == [kind |-> "none", bid |-> None, ofr |-> None]
Frames ==
    {[kind |-> kd, bid |-> None, ofr |-> None] :
        kd \in {"bad_json", "not_object", "unknown", "subscribe", "ping"}}
    \cup {[kind |-> "quote", bid |-> b, ofr |-> a] :
            b \in {None, Unusable, BidSample}, a \in {None, Unusable, AskSample}}

\* json.loads raises on a frame that is not JSON (line 359), data.get on
\* one that is not an object (line 360), float() on an unusable value
\* (lines 384-386, reached when both fields are truthy)
Raises(f) ==
    \/ f.kind \in {"bad_json", "not_object"}
    \/ f.kind = "quote" /\ f.bid # None /\ f.ofr # None
          /\ Unusable \in {f.bid, f.ofr}

\* _handle_websocket_message, lines 371-389: the PriceTick a frame gives,
\* if any
Normalize(f) ==
    IF f.kind = "quote" /\ f.bid # None /\ f.ofr # None /\ ~Raises(f)
    THEN <<[bid |-> f.bid, ask |-> f.ofr, mid |-> (f.bid + f.ofr) \div 2]>>
    ELSE <<>>

\* mutant: the handler lets the exceptions of a bad frame through
HandleMessageUncaught(f) == [tick |-> Normalize(f), raised |-> Raises(f)]

\* _handle_websocket_message, lines 356-411: what the handler passes to the
\* callback and whether it raises; lines 408-411 catch every exception
HandleMessage(f) == [tick |-> Normalize(f), raised |-> FALSE]

\* mutant: the delay grows by one instead of doubling
NextDelayLinear(d) == Min(d + 1, MAX_DELAY)

\* line 311
NextDelay(d) == Min(d * 2, MAX_DELAY)

\* _streaming_loop, lines 307-313: sleep before the next attempt, or stop
\* after the last one
Backoff(l, u) ==
    IF l.attempt < MAX_RETRIES - 1
    THEN [loop |-> [l EXCEPT !.pc = "sleep_wait"],
          upstream |-> [u EXCEPT !.delays = Append(@, l.retry_delay)]]
    ELSE [loop |-> [l EXCEPT !.pc = "done"], upstream |-> u]

ManagerUnchanged ==
    UNCHANGED <<otherVars, max_connections, max_price_history, connections,
                connection_info, price_history, ws, closeCode, sent, task, now,
                nticks, nmsgs, nclock>>

\* _streaming_loop, lines 265-281: an attempt begins with websockets.connect
BeginAttempt(l, u) ==
    [loop |-> [l EXCEPT !.pc = "connect_wait", !.epic = 0],
     upstream |-> [u EXCEPT !.attempts = @ + 1]]

\* start_streaming, lines 248-258: the loop's task is created and runs to
\* its first await
StartStreaming ==
    /\ loop.pc = "init"
    /\ LET b == BeginAttempt([loop EXCEPT !.attempt = 0, !.retry_delay = INITIAL_DELAY],
                             [upstream EXCEPT !.spawned = @ + 1])
       IN  loop' = b.loop /\ upstream' = b.upstream
    /\ UNCHANGED capital
    /\ ManagerUnchanged

\* start_streaming called while the loop of an earlier call is still alive:
\* line 258 creates one more task running _streaming_loop, whatever the
\* state of the service.  Only the number of such tasks is kept.
StartStreamingAgain ==
    /\ loop.pc \notin {"init", "done"}
    /\ upstream.spawned < MaxStarts
    /\ upstream' = [upstream EXCEPT !.spawned = @ + 1]
    /\ UNCHANGED <<capital, loop>>
    /\ ManagerUnchanged

\* websockets.connect raises (lines 299-305); then the backoff
ConnectFails ==
    /\ loop.pc = "connect_wait"
    /\ capital' = [capital EXCEPT !.is_streaming = FALSE]
    /\ LET b == Backoff(loop, upstream)
       IN  loop' = b.loop /\ upstream' = b.upstream
    /\ ManagerUnchanged

\* mutant: a successful connection starts the backoff over
ConnectSucceedsResets ==
    /\ loop.pc = "connect_wait"
    /\ capital' = [is_streaming |-> TRUE, websocket |-> upstream.attempts]
    /\ loop' = [loop EXCEPT !.pc = "sub_wait", !.epic = 1,
                            !.retry_delay = INITIAL_DELAY]
    /\ upstream' = [upstream EXCEPT !.sock = "open", !.acked = 0, !.connects = @ + 1]
    /\ ManagerUnchanged

\* websockets.connect returns (lines 276-287); _subscribe_to_gold sends the
\* request for the first epic and awaits the reply (lines 320-334)
ConnectSucceeds ==
    /\ loop.pc = "connect_wait"
    /\ capital' = [is_streaming |-> TRUE, websocket |-> upstream.attempts]
    /\ loop' = [loop EXCEPT !.pc = "sub_wait", !.epic = 1]
    /\ upstream' = [upstream EXCEPT !.sock = "open", !.acked = 0, !.connects = @ + 1]
    /\ ManagerUnchanged

\* _subscribe_to_gold, lines 334-354: the reply for the current epic.
\* "processed": status OK and the epic PROCESSED, the function returns;
\* "rejected": any other reply; "error": send, recv, wait_for or json.loads
\* raised.  After the last epic the function logs an error and returns too;
\* either way line 289 is next, then the read loop.
SubscribeReply(outcome) ==
    /\ loop.pc = "sub_wait"
    /\ IF outcome = "processed"
       THEN /\ loop' = [loop EXCEPT !.pc = "read_wait"]
            /\ upstream' = [upstream EXCEPT !.acked = loop.epic]
       ELSE /\ loop' = IF loop.epic < Len(GoldEpics)
                       THEN [loop EXCEPT !.epic = @ + 1]
                       ELSE [loop EXCEPT !.pc = "read_wait"]
            /\ UNCHANGED upstream
    /\ UNCHANGED capital
    /\ ManagerUnchanged

\* `async for message in websocket` yields a frame (lines 292-293);
\* _handle_websocket_message and, for a tick, _safe_callback with the
\* manager's broadcast_price_update (dependencies.py lines 47-49), which
\* runs up to its first await.  The next frame is read when it has ended.
\* An exception leaving the handler would end the attempt (lines 303-305).
Frame(f) ==
    /\ loop.pc = "read_wait"
    /\ upstream.sock = "open"
    /\ task[FeedTask].pc = "idle"
    /\ LET h == HandleMessage(f)
           u == [upstream EXCEPT !.nframes = @ + 1, !.frame = f, !.out = h.tick,
                                 !.forwarded = @ \o h.tick]
           b == Backoff(loop, [u EXCEPT !.sock = "closed"])
       IN  /\ IF h.raised
              THEN /\ capital' = [capital EXCEPT !.is_streaming = FALSE]
                   /\ loop' = b.loop /\ upstream' = b.upstream
              ELSE /\ upstream' = u
                   /\ UNCHANGED <<capital, loop>>
           /\ IF h.tick # <<>>
              THEN /\ nticks' = nticks + 1
                   /\ Apply(BroadcastPriceUpdate(Cur, FeedTask, nticks + 1,
                                                 max_price_history))
              ELSE UNCHANGED <<connections, connection_info, price_history, ws,
                               closeCode, sent, task, nticks>>
    /\ UNCHANGED <<otherVars, max_connections, max_price_history, now, nmsgs, nclock>>

\* the socket is closed with code 1000 or 1001: `async for` ends without
\* raising (line 292), no except clause runs; then the backoff
ReadCloseOK ==
    /\ loop.pc = "read_wait"
    /\ task[FeedTask].pc = "idle"
    /\ LET b == Backoff(loop, [upstream EXCEPT !.sock = "closed"])
       IN  loop' = b.loop /\ upstream' = b.upstream
    /\ UNCHANGED capital
    /\ ManagerUnchanged

\* the socket breaks: `async for` raises ConnectionClosed (lines 295-297);
\* then the backoff
ReadCloseError ==
    /\ loop.pc = "read_wait"
    /\ task[FeedTask].pc = "idle"
    /\ capital' = [capital EXCEPT !.is_streaming = FALSE]
    /\ LET b == Backoff(loop, [upstream EXCEPT !.sock = "closed"])
       IN  loop' = b.loop /\ upstream' = b.upstream
    /\ ManagerUnchanged

\* asyncio.sleep(retry_delay) returns (lines 310-311); the next attempt
SleepReturns ==
    /\ loop.pc = "sleep_wait"
    /\ LET b == BeginAttempt([loop EXCEPT !.retry_delay = NextDelay(@),
                                          !.attempt = @ + 1], upstream)
       IN  loop' = b.loop /\ upstream' = b.upstream
    /\ UNCHANGED capital
    /\ ManagerUnchanged

StopSet(pc, via) == [task EXCEPT ![StopTask].pc = pc, ![StopTask].loc.via = via]

StopUnchanged ==
    UNCHANGED <<otherVars, max_connections, max_price_history, connections,
                connection_info, price_history, ws, closeCode, sent, now, nticks,
                nmsgs, nclock>>

\* cleanup, lines 99-105, after the streaming part: close() on whatever
\* self.websocket holds, awaited; then the HTTP session's close()
CleanupClose(cap, u) ==
    IF cap.websocket # None
    THEN [upstream |-> [u EXCEPT !.sock = "closed"], pc |-> "cleanup_close_wait"]
    ELSE [upstream |-> u, pc |-> "session_close_wait"]

\* stop_streaming, line 428
StopFlag(cap) == [cap EXCEPT !.is_streaming = FALSE]

\* stop_streaming (lines 423-429), called directly or by cleanup when
\* is_streaming is True (lines 96-97): close() on an open socket is awaited,
\* otherwise the flag is cleared at once.  The loop's task is not touched.
StopStreamingCall(via) ==
    /\ task[StopTask].pc = "start"
    /\ loop.pc # "init"
    /\ via = "cleanup" => capital.is_streaming
    /\ IF capital.websocket # None /\ upstream.sock = "open"
       THEN /\ upstream' = [upstream EXCEPT !.sock = "closed"]
            /\ task' = StopSet("stop_close_wait", via)
            /\ UNCHANGED capital
       ELSE /\ capital' = StopFlag(capital)
            /\ IF via = "stop"
               THEN task' = StopSet("done", via) /\ UNCHANGED upstream
               ELSE LET c == CleanupClose(capital, upstream)
                    IN  task' = StopSet(c.pc, via) /\ upstream' = c.upstream
    /\ UNCHANGED loop
    /\ StopUnchanged

\* cleanup (lines 91-107) when is_streaming is False: stop_streaming is
\* skipped
ServiceCleanup ==
    /\ task[StopTask].pc = "start"
    /\ loop.pc # "init"
    /\ ~capital.is_streaming
    /\ LET c == CleanupClose(capital, upstream)
       IN  task' = StopSet(c.pc, "cleanup") /\ upstream' = c.upstream
    /\ UNCHANGED <<capital, loop>>
    /\ StopUnchanged

\* websocket.close() returns in stop_streaming (line 426); line 428
StopCloseReturns ==
    /\ task[StopTask].pc = "stop_close_wait"
    /\ capital' = StopFlag(capital)
    /\ IF task[StopTask].loc.via = "stop"
       THEN task' = StopSet("done", "stop") /\ UNCHANGED upstream
       ELSE LET c == CleanupClose(capital, upstream)
            IN  task' = StopSet(c.pc, "cleanup") /\ upstream' = c.upstream
    /\ UNCHANGED loop
    /\ StopUnchanged

\* cleanup resumes after websocket.close() (line 101) or session.close()
\* (line 105)
CleanupResume ==
    /\ task[StopTask].pc \in {"cleanup_close_wait", "session_close_wait"}
    /\ task' = StopSet(IF task[StopTask].pc = "cleanup_close_wait"
                       THEN "session_close_wait" ELSE "done", "cleanup")
    /\ UNCHANGED <<capital, loop, upstream>>
    /\ StopUnchanged

\* --------------------------------------------- GoldDataFetcher, by await
Resolutions == {"MINUTE_5", "HOUR", "DAY"}

\* lines 103-108
PageSize(resolution) ==
    IF resolution \in {"MINUTE", "MINUTE_5"} THEN 500 ELSE 1000

\* What session.get gives (lines 157-201): status 401; another status that
\* is not 200; 200 with no prices; 200 with fewer prices than page_size;
\* 200 with a full page; or an exception (the request, response.json() or
\* a timestamp that fromisoformat rejects).
Responses == {"401", "error_status", "empty", "short", "full", "raise"}

FetchIdle ==
    [pc |-> "idle", resolution |-> "none", max_pages |-> 0, page_num |-> 0,
     in_range |-> FALSE, all_prices |-> 0, requests |-> 0]

\* line 137 and lines 157-159: the loop's test and, when it holds, the next
\* page request
FetchLoop(f) ==
    IF f.page_num < f.max_pages /\ f.in_range
    THEN [f EXCEPT !.pc = "get_wait", !.requests = @ + 1]
    ELSE [f EXCEPT !.pc = "done"]

FetchUnchanged ==
    UNCHANGED <<limiter, streamVars, max_connections, max_price_history,
                connections, connection_info, price_history, ws, closeCode, sent,
                task, now, nticks, nmsgs, nclock>>

\* _fetch_for_epic is called (lines 82-135): authenticate first when the
\* service is not authenticated (lines 96-97), else enter the loop.
\* inRange tells whether from_date < to_date, which the defaults make true.
FetchCall(resolution, max_pages, inRange, authenticated) ==
    /\ fetch.pc = "idle"
    /\ LET f == [fetch EXCEPT !.resolution = resolution, !.max_pages = max_pages,
                              !.in_range = inRange]
       IN  fetch' = IF authenticated THEN FetchLoop(f)
                    ELSE [f EXCEPT !.pc = "first_auth_wait"]
    /\ FetchUnchanged

\* authenticate returns or raises (capital.py lines 109-153): before the
\* loop an exception leaves _fetch_for_epic; in the 401 branch (lines
\* 160-171) it is caught at line 239 and ends the loop, and a return is
\* followed by `continue`, with page_num and the date range as they were
FetchAuthReturns(ok) ==
    /\ fetch.pc \in {"first_auth_wait", "auth_wait"}
    /\ fetch.requests < MaxFetchRequests
    /\ fetch' = IF fetch.pc = "first_auth_wait"
                THEN (IF ok THEN FetchLoop(fetch) ELSE [fetch EXCEPT !.pc = "raised"])
                ELSE (IF ok THEN FetchLoop(fetch)
                      ELSE [fetch EXCEPT !.pc = "done"])
    /\ FetchUnchanged

\* the response to the page request, lines 159-237
FetchResponse(r) ==
    /\ fetch.pc = "get_wait"
    /\ fetch' =
          CASE r = "401" -> [fetch EXCEPT !.pc = "auth_wait"]
            [] r \in {"error_status", "empty", "raise"} -> [fetch EXCEPT !.pc = "done"]
            [] r = "short" -> [fetch EXCEPT !.pc = "done", !.all_prices = @ + 1]
            [] r = "full" ->
                  \* lines 196-237: a window of its own for the next page
                  [fetch EXCEPT !.pc = "sleep_wait",
                                !.all_prices = @ + PageSize(fetch.resolution),
                                !.in_range = TRUE, !.page_num = @ + 1]
    /\ FetchUnchanged

\* asyncio.sleep(0.2) returns (line 237)
FetchSleepReturns ==
    /\ fetch.pc = "sleep_wait"
    /\ fetch' = FetchLoop(fetch)
    /\ FetchUnchanged

\* ------------------------------------------------- RateLimitMiddleware
ExemptPaths == {"/health", "/docs", "/redoc"}
Paths == ExemptPaths \cup {"/api/v1/price/current"}
ClientIPs == {"10.0.0.1", "unknown"}
NoResponse == [ip |-> "none", path |-> "none", status |-> 0]

\* lines 35-39
Prune(times, cutoff_time) == SelectSeq(times, LAMBDA req_time : req_time > cutoff_time)

\* mutant: the limit is compared with > instead of >=
OverLimitStrict(n, calls_per_minute) == n > calls_per_minute

\* line 45
OverLimit(n, calls_per_minute) == n >= calls_per_minute

\* dispatch, lines 23-59; there is no await before call_next, so one
\* request is handled in one step.  status 200 stands for "passed to the
\* application".
Dispatch(l, client_ip, path) ==
    IF path \in ExemptPaths
    THEN [l EXCEPT !.last = [ip |-> client_ip, path |-> path, status |-> 200]]
    ELSE LET cutoff_time == l.time - RATE_WINDOW
             cr == IF client_ip \in DOMAIN l.client_requests
                   THEN [l.client_requests EXCEPT ![client_ip] = Prune(@, cutoff_time)]
                   ELSE l.client_requests @@ (client_ip :> <<>>)
         IN  IF OverLimit(Len(cr[client_ip]), l.calls_per_minute)
             THEN [l EXCEPT !.client_requests = cr,
                            !.last = [ip |-> client_ip, path |-> path, status |-> 429]]
             ELSE [l EXCEPT !.client_requests =
                                [cr EXCEPT ![client_ip] = Append(@, l.time)],
                            !.passed[client_ip] = Append(@, l.time),
                            !.last = [ip |-> client_ip, path |-> path, status |-> 200]]

LimitUnchanged ==
    UNCHANGED <<fetch, streamVars, max_connections, max_price_history,
                connections, connection_info, price_history, ws, closeCode, sent,
                task, now, nticks, nmsgs, nclock>>

\* a request arrives
Request(client_ip, path) ==
    /\ limiter.nreq < MaxRlRequests
    /\ limiter' = [Dispatch(limiter, client_ip, path) EXCEPT !.nreq = @ + 1]
    /\ LimitUnchanged

\* time.time() moves on
TimePasses(d) ==
    /\ limiter.nclock < MaxRlClock
    /\ limiter' = [limiter EXCEPT !.time = @ + d, !.nclock = @ + 1]
    /\ LimitUnchanged

\* ------------------------------------------------------------ specification
\* GoldDataFetcher before a call, and RateLimitMiddleware.__init__
\* (rate_limit.py lines 18-21)
InitOther ==
    /\ fetch = FetchIdle
    /\ limiter = [calls_per_minute |-> CallsPerMinuteCfg, client_requests |-> <<>>,
                  time |-> 0, passed |-> [ip \in ClientIPs |-> <<>>],
                  last |-> NoResponse, nreq |-> 0, nclock |-> 0]

RouterInit == [pc |-> "start", k |-> "none", inSend |-> FALSE, id |-> None,
               loc |-> [connection_id |-> None, message |-> <<>>, outcome |-> "none"]]
FeedInit == [pc |-> "idle", k |-> "none", inSend |-> FALSE, id |-> None,
             loc |-> [used |-> 0, visited |-> {}, ok |-> 0, failed |-> <<>>,
                      atStart |-> {}, tick |-> None, cur |-> None,
                      outcome |-> "none"]]
SweepInit == [pc |-> "sleep", k |-> "none", inSend |-> FALSE, id |-> None,
              loc |-> [now |-> None, stale_connections |-> <<>>, stale |-> <<>>,
                       wakeAt |-> 1 + SWEEP_INTERVAL,
                       cancelled |-> FALSE, errors |-> 0]]
ShutdownInit == [pc |-> "start", k |-> "none", inSend |-> FALSE, id |-> None,
                 loc |-> [todo |-> <<>>, outcome |-> "none"]]
StopInit == [pc |-> "start", k |-> "none", inSend |-> FALSE, id |-> None,
             loc |-> [via |-> "none"]]

\* __init__ (lines 24-30) and initialize (lines 32-39), at time 1
InitManager ==
    /\ connections = <<>>
    /\ connection_info = <<>>
    /\ price_history = <<>>
    /\ ws = [c \in Clients |-> "connecting"]
    /\ closeCode = [c \in Clients |-> None]
    /\ sent = [c \in Clients |-> <<>>]
    /\ task = [t \in Tasks |->
                 IF t = FeedTask THEN FeedInit
                 ELSE IF t = SweepTask THEN SweepInit
                 ELSE IF t = ShutdownTask THEN ShutdownInit
                 ELSE IF t = StopTask THEN StopInit ELSE RouterInit]
    /\ now = 1
    /\ nticks = 0
    /\ nmsgs = [c \in Clients |-> 0]
    /\ nclock = 0

\* CapitalAPIService.__init__ (capital.py lines 59-61), before
\* start_streaming
InitIdle ==
    /\ capital = [is_streaming |-> FALSE, websocket |-> None]
    /\ loop = [pc |-> "init", attempt |-> 0, retry_delay |-> INITIAL_DELAY, epic |-> 0]
    /\ upstream = [sock |-> "none", acked |-> 0, attempts |-> 0, connects |-> 0,
                   spawned |-> 0,
                   delays |-> <<>>, forwarded |-> <<>>, nframes |-> 0,
                   frame |-> NoFrame, out |-> <<>>]

\* the streaming loop in its first attempt, subscribed to the first epic
\* and reading frames (capital.py lines 292-293)
InitReading ==
    /\ capital = [is_streaming |-> TRUE, websocket |-> 1]
    /\ loop = [pc |-> "read_wait", attempt |-> 0, retry_delay |-> INITIAL_DELAY,
               epic |-> 1]
    /\ upstream = [sock |-> "open", acked |-> 1, attempts |-> 1, connects |-> 1,
                   spawned |-> 1,
                   delays |-> <<>>, forwarded |-> <<>>, nframes |-> 0,
                   frame |-> NoFrame, out |-> <<>>]

Init ==
    /\ max_connections \in 1..MaxConnCfg
    /\ max_price_history = MaxHistCfg
    /\ InitManager
    /\ InitReading
    /\ InitOther

FeedTick == nticks < MaxTicks /\ Tick
ClockStep == nclock < MaxClock /\ AdvanceClock(STALE_AFTER + 1)

\* The manager under concurrency: clients connect and go away, the feed
\* delivers ticks, the sweeper runs, with every interleaving at the awaits.
Next ==
    \/ \E c \in Clients : ConnectCall(c)
    \/ \E c \in Clients : ResumeRefuse(c)
    \/ \E c \in Clients : ResumeAccept(c)
    \/ \E t \in Tasks : ResumeSend(t)
    \/ \E t \in Tasks : ResumeClose(t)
    \/ \E c \in Clients : RecvDisconnect(c)
    \/ \E c \in Clients : ClientClose(c)
    \/ FeedTick
    \/ SweeperWake
    \/ ClockStep

Spec == Init /\ [][Next]_vars

\* The history buffer at its real sizes, one operation at a time: the feed
\* fills the buffer past its capacity, then one client connects and asks
\* for the history.  MAX_PRICE_HISTORY is 1, the default (1000) or 1001.
InitHist ==
    /\ max_connections = 1
    /\ max_price_history \in {1, HISTORY_HARD_LIMIT, HISTORY_HARD_LIMIT + 1}
    /\ InitManager
    /\ InitReading
    /\ InitOther

\* get_price_history requests (spec section 6: get_price_history{limit})
HistoryRequests ==
    {[type |-> "get_price_history", data |-> <<>>]}
    \cup {[type |-> "get_price_history", data |-> [limit |-> n]] :
            n \in {-1, 0, 1, REPLAY_LIMIT, max_price_history,
                   max_price_history + 1, 2 * HISTORY_HARD_LIMIT}}

HistTick == nticks < max_price_history + HistExtra /\ task[1].pc = "start" /\ Tick
HistRequest == \E m \in HistoryRequests : nmsgs[1] < MaxMsgs /\ Receive(1, m)

NextHist ==
    \/ HistTick
    \/ ConnectCall(1)
    \/ ResumeAccept(1)
    \/ ResumeSend(1)
    \/ HistRequest

SpecHist == InitHist /\ [][NextHist]_vars

\* The sweeper and the heartbeats: clients connect and ping, time
\* passes in steps around the staleness threshold, the sweeper runs, and
\* the manager is shut down, with every interleaving at the awaits.
InitSweep ==
    /\ max_connections = MaxConnCfg
    /\ max_price_history = MaxHistCfg
    /\ InitManager
    /\ InitReading
    /\ InitOther

PingFrame == [type |-> "ping", data |-> <<>>]
Ping(c) == nmsgs[c] < MaxMsgs /\ Receive(c, PingFrame)
LatePing(c) == nmsgs[c] < MaxMsgs /\ ReceiveLate(c, PingFrame)
SweepClock ==
    /\ nclock < MaxSweepClock
    /\ \E d \in {STALE_AFTER - 1, STALE_AFTER, STALE_AFTER + 1} : AdvanceClock(d)

NextSweep ==
    \/ \E c \in Clients : ConnectCall(c)
    \/ \E c \in Clients : ResumeAccept(c)
    \/ \E c \in Clients : ResumeSend(c)
    \/ \E t \in Tasks : ResumeClose(t)
    \/ \E c \in Clients : RecvDisconnect(c)
    \/ \E c \in Clients : Ping(c)
    \/ \E c \in Clients : LatePing(c)
    \/ SweeperWake
    \/ SweepClock
    \/ CleanupCall
    \/ SweeperCancelled

SpecSweep == InitSweep /\ [][NextSweep]_vars

\* The event loop runs every task that is ready: once close() has returned
\* the sweeper is resumed, and a cancelled sweeper is given its
\* CancelledError.
FairSpecSweep ==
    /\ SpecSweep
    /\ WF_vars(ResumeClose(SweepTask))
    /\ WF_vars(SweeperCancelled)

\* The upstream client: the streaming loop connects, subscribes, reads
\* frames and backs off, while one client of the dashboard is connected, so
\* that the price callback really sends (and can really fail).
InitStream ==
    /\ max_connections = 1
    /\ max_price_history = MaxHistCfg
    /\ InitManager
    /\ InitIdle
    /\ InitOther

NextFrame == \E f \in Frames : upstream.nframes < MaxFrames /\ Frame(f)

NextStream ==
    \/ StartStreaming
    \/ ConnectFails
    \/ ConnectSucceeds
    \/ \E o \in {"processed", "rejected", "error"} : SubscribeReply(o)
    \/ NextFrame
    \/ ReadCloseOK
    \/ ReadCloseError
    \/ SleepReturns
    \/ ConnectCall(1)
    \/ ResumeAccept(1)
    \/ \E t \in {1, FeedTask} : ResumeSend(t)
    \/ \E t \in {1, FeedTask} : ResumeClose(t)
    \/ ClientClose(1)
    \/ RecvDisconnect(1)

SpecStream == InitStream /\ [][NextStream]_vars

\* The life cycle of the upstream client: start_streaming, the loop's
\* attempts, and one call of stop_streaming or cleanup at any moment, with
\* every interleaving at the awaits.
NextStop ==
    \/ StartStreaming
    \/ StartStreamingAgain
    \/ ConnectFails
    \/ ConnectSucceeds
    \/ \E o \in {"processed", "rejected", "error"} : SubscribeReply(o)
    \/ ReadCloseOK
    \/ ReadCloseError
    \/ SleepReturns
    \/ \E via \in {"stop", "cleanup"} : StopStreamingCall(via)
    \/ ServiceCleanup
    \/ StopCloseReturns
    \/ CleanupResume

SpecStop == InitStream /\ [][NextStop]_vars

\* A slow subscriber: clients connect while the upstream loop reads frames
\* and hands the ticks to the price callback.  The event loop resumes every
\* task whose await has completed; a send to SlowClient may stay pending
\* for ever (its peer does not read), every other send completes.
SlowClient == 1
FastSendCompletes == task[FeedTask].id # SlowClient /\ ResumeSend(FeedTask)

NextSlow ==
    \/ \E c \in Clients : ConnectCall(c)
    \/ \E c \in Clients : ResumeAccept(c)
    \/ \E t \in Clients \cup {FeedTask} : ResumeSend(t)
    \/ NextFrame

SpecSlow == InitSweep /\ [][NextSlow]_vars

FairSpecSlow ==
    /\ SpecSlow
    /\ \A c \in Clients : WF_vars(ResumeAccept(c)) /\ WF_vars(ResumeSend(c))
    /\ WF_vars(FastSendCompletes)

\* One call of _fetch_for_epic against every sequence of responses.
NextFetch ==
    \/ \E r \in Resolutions, mp \in 1..MaxPagesCfg, inr \in BOOLEAN, au \in BOOLEAN :
          FetchCall(r, mp, inr, au)
    \/ \E ok \in BOOLEAN : FetchAuthReturns(ok)
    \/ \E r \in Responses : FetchResponse(r)
    \/ FetchSleepReturns

SpecFetch == InitStream /\ [][NextFetch]_vars

\* The middleware against requests of two clients on exempt and other
\* paths, with time passing in steps around the window's length.
NextLimit ==
    \/ \E ip \in ClientIPs, path \in Paths : Request(ip, path)
    \/ \E d \in {1, RATE_WINDOW - 1, RATE_WINDOW} : TimePasses(d)

SpecLimit == InitStream /\ [][NextLimit]_vars

\* Subscribers that switch their stream off and on: clients connect, send
\* stop_streaming, start_streaming and get_current_price, and the feed
\* delivers ticks, with every interleaving at the awaits.
ControlFrames ==
    {[type |-> ty, data |-> <<>>] :
        ty \in {"stop_streaming", "start_streaming", "get_current_price"}}
Control(c) == \E m \in ControlFrames : nmsgs[c] < MaxCtl /\ Receive(c, m)

NextActive ==
    \/ \E c \in Clients : ConnectCall(c)
    \/ \E c \in Clients : ResumeAccept(c)
    \/ \E t \in Clients \cup {FeedTask} : ResumeSend(t)
    \/ \E c \in Clients : Control(c)
    \/ FeedTick

SpecActive == InitSweep /\ [][NextActive]_vars

\* ------------------------------------------------------------------- claims
TickMsg(n) == Msg("gold_price_update", <<n>>)
Welcome(c) == Msg("connection_established", <<c>>)
Registered(c) == c \in SeqSet(connections)
BroadcastEnded == task[FeedTask].pc = "idle" /\ task[FeedTask].loc.outcome # "none"

\* the ticks a log carries, in the order they arrive: live updates and the
\* entries of price_history messages
RECURSIVE TicksOf(_)
TicksOf(log) ==
    IF log = <<>> THEN <<>>
    ELSE (IF Head(log).type \in {"gold_price_update", "price_history"}
          THEN Head(log).data ELSE <<>>) \o TicksOf(Tail(log))

StrictlyIncreasing(q) == \A i \in 1..(Len(q) - 1) : q[i] < q[i + 1]

\* C1: when the send to one subscriber fails during a broadcast, the
\* broadcast call completes without raising, every other subscriber that was
\* registered when it started (and can be sent to) has received the message,
\* and the failing subscriber is in neither connections nor connection_info.
C1_FanOutIsolation ==
    LET loc == task[FeedTask].loc
    IN  (BroadcastEnded /\ Len(loc.failed) = 1 /\ Cardinality(loc.atStart) > 1) =>
            /\ loc.outcome = "ok"
            /\ \A c \in loc.atStart \ SeqSet(loc.failed) :
                   ws[c] = "open" => TickMsg(loc.tick) \in SeqSet(sent[c])
            /\ \A c \in SeqSet(loc.failed) :
                   ~Registered(c) /\ c \notin InfoKeys(connection_info)

\* C2: when a broadcast in which no send failed has ended, every subscriber
\* that was registered when it began and is still registered has had its
\* send attempt for the tick, whatever connected or disconnected meanwhile.
C2_OneAttemptEach ==
    LET loc == task[FeedTask].loc
    IN  (BroadcastEnded /\ \A v \in loc.visited : TickMsg(loc.tick) \in SeqSet(sent[v])) =>
            \A c \in loc.atStart : Registered(c) => c \in loc.visited

\* C3: the number of registered connections never exceeds the configured
\* maximum.
C3_MaxConnections == Len(connections) <= max_connections

\* one step seen from client c's refused connect
C4_Step(c) ==
    /\ (task[c].pc = "start" /\ task'[c] # task[c]
            /\ Len(connections) >= max_connections) =>
           /\ task'[c].pc = "refuse_wait"
           /\ ws'[c] = "closed" /\ closeCode'[c] = CLOSE_POLICY
           /\ sent' = sent
           /\ connections' = connections /\ connection_info' = connection_info
    /\ (task[c].pc = "refuse_wait" /\ task'[c] # task[c]) =>
           /\ task'[c].pc = "done" /\ task'[c].loc.outcome = "refused"
           /\ task'[c].loc.connection_id = None
           /\ sent' = sent /\ ws' = ws /\ closeCode' = closeCode
           /\ connections' = connections /\ connection_info' = connection_info
    /\ (task[c].pc = "refuse_wait" \/ task[c].loc.outcome = "refused") =>
           /\ sent'[c] = <<>>
           /\ closeCode'[c] = CLOSE_POLICY
           /\ task'[c].pc \in {"refuse_wait", "done"}
\* C4: a connect called at capacity closes the socket with code 1008 and
\* raises; nothing is sent to the client, connections and connection_info
\* are as they were, and the endpoint ends without calling disconnect.
C4_RefusedAtCapacity == [][\A c \in Clients : C4_Step(c)]_vars

C4_Witness ==
    \E c \in Clients :
        /\ task[c].pc = "done" /\ task[c].loc.outcome = "refused"
        /\ closeCode[c] = CLOSE_POLICY /\ Len(connections) = max_connections

\* C7: the ticks sent to a subscriber, live and replayed, arrive in the
\* order they were normalised, none of them twice.
C7_PerSubscriberOrder == \A c \in Clients : StrictlyIncreasing(TicksOf(sent[c]))

\* client c's endpoint is inside connect
InConnect(c) ==
    \/ task[c].pc \in {"start", "accept_wait", "refuse_wait"}
    \/ task[c].pc \in {"send_wait", "close_wait"} /\ task[c].k \in {"welcome", "replay"}
C8_Inv ==
    \A c \in Clients :
        /\ sent[c] # <<>> => sent[c][1] = Welcome(c)
        /\ \A i \in 2..Len(sent[c]) : sent[c][i].type # "connection_established"
C8_Step ==
    \A c \in Clients :
        (InConnect(c) /\ task'[c] # task[c]) =>
            \A d \in Clients \ {c} : sent'[d] = sent[d]
\* C8: the first message a subscriber is sent is connection_established
\* with its own id, so the history replay comes after it; and while a client
\* is inside connect, the steps of its connect send nothing to any other
\* subscriber.
C8_WelcomeThenReplayToNewOnly == [](C8_Inv) /\ [][C8_Step]_vars

C8_Witness ==
    \E c, d \in Clients :
        /\ c # d /\ connections = <<d, c>>
        /\ task[c].loc.outcome = "returned"
        /\ Len(sent[c]) = 2 /\ sent[c][2].type = "price_history"
        /\ \A i \in 1..Len(sent[d]) : sent[d][i].type # "price_history"

\* C10: a subscriber whose connect has returned and that has sent nothing
\* has been sent a price_history message, an empty one when the buffer was
\* empty, and is registered.
C10_ReplayEvenIfEmpty ==
    \A c \in Clients :
        (task[c].pc = "recv" /\ nmsgs[c] = 0 /\ ws[c] = "open" /\ Registered(c)) =>
            \E i \in 1..Len(sent[c]) : sent[c][i].type = "price_history"

\* ---- the history buffer (SpecHist)
Last(q) == q[Len(q)]
\* the n most recent entries of the buffer, oldest first
MostRecent(n) == SubSeq(price_history, Len(price_history) - n + 1, Len(price_history))
\* the buffer holds the last min(n, C) of the ticks 1..n, oldest first
BufferIsLastTicks ==
    /\ Len(price_history) = Min(nticks, max_price_history)
    /\ \A i \in 1..Len(price_history) :
           price_history[i] = nticks - Len(price_history) + i
\* client c has just been sent the answer to a get_price_history request
\* that named a limit
AnsweredLimit(c) ==
    /\ task[c].pc = "send_wait" /\ task[c].k = "handler"
    /\ task[c].loc.message.type = "get_price_history"
    /\ "limit" \in DOMAIN task[c].loc.message.data
LimitOf(c) == task[c].loc.message.data.limit
\* client c has been through connect and has asked for nothing yet
JustConnected(c) == task[c].pc = "recv" /\ nmsgs[c] = 0

C6_LimitRespected ==
    \A c \in Clients :
        AnsweredLimit(c) =>
            LET d == Last(sent[c]).data
            IN  /\ Len(d) <= Max(Min(LimitOf(c), HISTORY_HARD_LIMIT), 0)
                /\ Len(d) <= Len(price_history) /\ d = MostRecent(Len(d))
                /\ BufferIsLastTicks

\* C9 as claimed: the replay sent at registration holds every entry of the
\* buffer, oldest first.
C9_Original ==
    \A c \in Clients :
        JustConnected(c) =>
            \A i \in 1..Len(sent[c]) :
                sent[c][i].type = "price_history" => sent[c][i].data = price_history

\* C9 as amended: when the buffer is not empty, the replay is sent and holds
\* the most recent min(size, 50) entries of the buffer, oldest first.
C9_ReplayLast50 ==
    \A c \in Clients :
        (JustConnected(c) /\ price_history # <<>>) =>
            sent[c] = <<Welcome(c),
                        Msg("price_history",
                            MostRecent(Min(Len(price_history), REPLAY_LIMIT)))>>

C9_Witness ==
    \E c \in Clients :
        /\ JustConnected(c) /\ Len(price_history) > REPLAY_LIMIT
        /\ Len(sent[c]) = 2 /\ Len(sent[c][2].data) = REPLAY_LIMIT

\* ---- the sweeper and the heartbeats (SpecSweep)
Pong == Msg("pong", <<>>)
Pongs(log) == Len(SelectSeq(log, LAMBDA m : m.type = "pong"))
InfoOf(c) == connection_info[CHOOSE i \in 1..Len(connection_info) :
                                connection_info[i].id = c]

\* the endpoint's finally clause calls disconnect with an id that another
\* task has removed already
C11_Step(c) ==
    (task[c].pc = "recv" /\ task'[c] # task[c] /\ nmsgs'[c] = nmsgs[c]
        /\ ~Registered(task[c].loc.connection_id)) =>
            /\ connections' = connections /\ connection_info' = connection_info
            /\ ws' = ws /\ closeCode' = closeCode /\ sent' = sent
            /\ task'[c].pc = "done" /\ task'[c].loc.outcome # "raised"
\* C11: disconnect called with an id that is not registered (already removed
\* by an earlier, completed disconnect) changes neither connections nor
\* connection_info, closes nothing and does not raise, so the second of two
\* calls in sequence leaves the state the first one made.
C11_DisconnectIdempotent == [][\A c \in Clients : C11_Step(c)]_vars

C11_Witness ==
    \E c \in Clients :
        /\ task[c].pc = "done" /\ task[c].loc.outcome = "returned"
        /\ ~Registered(c) /\ c \notin InfoKeys(connection_info)
        /\ closeCode[c] = CLOSE_NORMAL
        /\ task[SweepTask].loc.errors = 0 /\ task[ShutdownTask].pc = "start"

C12_Step(c) ==
    /\ nmsgs'[c] # nmsgs[c] =>
          /\ connections' = connections /\ price_history' = price_history
          /\ InfoKeys(connection_info') = InfoKeys(connection_info)
          /\ (Registered(c) /\ ws[c] = "open") =>
                /\ connection_info' =
                       [i \in 1..Len(connection_info) |->
                           IF connection_info[i].id = c
                           THEN [connection_info[i] EXCEPT !.last_ping = now]
                           ELSE connection_info[i]]
                /\ sent' = [sent EXCEPT ![c] = Append(@, Pong)]
                /\ ws' = ws /\ closeCode' = closeCode
          /\ ~Registered(c) =>
                /\ connection_info' = connection_info
                /\ sent' = sent /\ ws' = ws /\ closeCode' = closeCode
                /\ task'[c].pc = "recv"
    /\ nmsgs'[c] = nmsgs[c] => Pongs(sent'[c]) = Pongs(sent[c])
C12_WitnessUnknown ==
    \E c \in Clients :
        /\ ~Registered(c) /\ nmsgs[c] = 1 /\ Pongs(sent[c]) = 0
        /\ task[c].pc = "recv" /\ task[c].loc.message = PingFrame

\* the last activity of a record (line 322)
LastActivity(r) == IF r.last_ping # None THEN r.last_ping ELSE r.connected_at
Sweeping == task[SweepTask].pc = "close_wait"
\* the step is one of the sweeper's own (not its cancellation)
SweeperRuns ==
    /\ task'[SweepTask] # task[SweepTask]
    /\ task'[SweepTask].loc.cancelled = task[SweepTask].loc.cancelled
    /\ task'[SweepTask].pc # "done"
\* the step ends a sweep: the sweeper is back at asyncio.sleep(60)
SweepEnds == SweeperRuns /\ task'[SweepTask].pc = "sleep"
\* the step begins a sweep: asyncio.sleep(60) has returned
SweepBegins == SweeperRuns /\ task[SweepTask].pc = "sleep"
C13_Step ==
    LET found == SeqSet(task'[SweepTask].loc.stale_connections)
    IN  /\ SweepBegins =>
              /\ task'[SweepTask].loc.now = now
              /\ found = {connection_info[i].id : i \in
                            {j \in 1..Len(connection_info) :
                                now - LastActivity(connection_info[j]) > STALE_AFTER}}
        /\ SweeperRuns =>
              \A id \in SeqSet(connections) \ found : id \in SeqSet(connections')
        /\ SweepEnds =>
              \A id \in found :
                  id \notin SeqSet(connections') /\ ws'[id] \notin {"connecting", "open"}
\* C13: a sweep finds stale exactly the subscribers whose last activity
\* (last_ping if set, connected_at otherwise) is more than 300 units before
\* the sweep time; no step of the sweeper removes any other subscriber; and
\* when the sweep ends, every subscriber it found stale is removed and its
\* socket is closed.
C13_SweepEvictsExactlyStale == [][C13_Step]_vars

C14_Step ==
    LET old == task[SweepTask]
        new == task'[SweepTask]
    IN  /\ new.pc \in {"sleep", "close_wait", "done"}
        \* an error raised while sweeping: back to sleep for another interval
        /\ new.loc.errors # old.loc.errors =>
              new.pc = "sleep" /\ new.loc.wakeAt = now + SWEEP_INTERVAL
        \* the loop ends only by cancellation, and then changes nothing else
        /\ (new.pc = "done" /\ old.pc # "done") =>
              /\ old.loc.cancelled
              /\ new.loc = old.loc
              /\ connections' = connections /\ connection_info' = connection_info
              /\ ws' = ws /\ closeCode' = closeCode /\ sent' = sent
        \* once ended, no further sweep
        /\ old.pc = "done" => new = old
\* C14: the sweeper is sleeping or sweeping until it is cancelled; an error
\* raised while sweeping sends it back to sleep; it ends only when cancelled,
\* without raising and without touching the connections, and does nothing
\* afterwards; and a sweep that has begun always comes to its end (back to
\* sleep, or cancelled).
C14_SweeperLoop == [][C14_Step]_vars /\ (Sweeping ~> ~Sweeping)

C14_Witness ==
    /\ task[SweepTask].pc = "done"
    /\ task[SweepTask].loc.errors = 1
    /\ task[SweepTask].loc.wakeAt > 1 + SWEEP_INTERVAL

\* ---- the upstream client (SpecStream)
\* the loop has ended after attempts that all failed at websockets.connect
AllConnectsFailed == loop.pc = "done" /\ upstream.connects = 0

\* C15 as claimed: after 5 consecutive failed connection attempts the delays
\* slept were 1, 2, 4, 8, 16, and 5 attempts were made.
C15_Original ==
    AllConnectsFailed =>
        /\ upstream.delays = [i \in 1..MAX_RETRIES |-> 2 ^ (i - 1)]
        /\ upstream.attempts = MAX_RETRIES

\* C15 as amended: every delay doubles the one before, starting at 1 and
\* never above 60; never more than 5 attempts are made; and after 5
\* consecutive failed attempts the delays slept were 1, 2, 4, 8: one between
\* two attempts, none after the fifth.
C15_BackoffDelays ==
    /\ upstream.attempts <= MAX_RETRIES
    /\ \A i \in 1..Len(upstream.delays) :
           upstream.delays[i] = 2 ^ (i - 1) /\ upstream.delays[i] <= MAX_DELAY
    /\ AllConnectsFailed =>
           /\ upstream.delays = [i \in 1..(MAX_RETRIES - 1) |-> 2 ^ (i - 1)]
           /\ upstream.attempts = MAX_RETRIES

C15_Witness ==
    /\ AllConnectsFailed
    /\ Len(upstream.delays) = MAX_RETRIES - 1
    /\ capital.websocket = None

\* C16: once the streaming loop has used up its retries and ended,
\* is_streaming is False (nothing sets it afterwards).
C16_StoppedWhenExhausted == loop.pc = "done" => ~capital.is_streaming

\* C17: the subscription requests go out in the order of gold_epics, and
\* the loop reads frames from a socket only after one of them was
\* acknowledged as PROCESSED on it.
C17_ReadOnlyIfSubscribed ==
    /\ loop.pc = "sub_wait" => loop.epic \in 1..Len(GoldEpics) /\ upstream.acked = 0
    /\ loop.pc = "read_wait" => upstream.acked \in 1..Len(GoldEpics)

\* C18: whenever is_streaming is True, the current upstream socket is open
\* and a subscription was acknowledged as PROCESSED on it.
C18_LiveOnlyAfterAck ==
    capital.is_streaming => (upstream.sock = "open" /\ upstream.acked # 0)

\* C19: for the last quote frame handled, with usable values: both bid and
\* ask present give a tick with mid = (bid + ask) / 2 (1900.0 and 1900.5
\* give 1900.25); one of them present gives a tick with mid equal to it;
\* none gives no tick; and the tick is what the callback was given.
C19_TickNormalization ==
    LET f == upstream.frame
        out == upstream.out
    IN  (f.kind = "quote" /\ Unusable \notin {f.bid, f.ofr}) =>
            /\ (f.bid # None /\ f.ofr # None) =>
                   /\ out = <<[bid |-> f.bid, ask |-> f.ofr,
                               mid |-> (f.bid + f.ofr) \div 2]>>
                   /\ (f.bid = BidSample /\ f.ofr = AskSample) =>
                          4 * out[1].mid = 4 * (4 * 1900) + 4
            /\ (f.bid # None /\ f.ofr = None) =>
                   out = <<[bid |-> f.bid, ask |-> None, mid |-> f.bid]>>
            /\ (f.bid = None /\ f.ofr # None) =>
                   out = <<[bid |-> None, ask |-> f.ofr, mid |-> f.ofr]>>
            /\ (f.bid = None /\ f.ofr = None) => out = <<>>
            /\ out # <<>> => Last(upstream.forwarded) = out[1]

\* a frame that is not JSON, not an object, of an unknown destination, or a
\* quote with a value that is not a number
BadFrame(f) ==
    \/ f.kind \in {"bad_json", "not_object", "unknown"}
    \/ f.kind = "quote" /\ Unusable \in {f.bid, f.ofr}
CallbackRaised == task[FeedTask].loc.outcome = "raised"
C20_Step ==
    /\ (upstream'.nframes # upstream.nframes /\ BadFrame(upstream'.frame)) =>
          /\ loop' = loop /\ capital' = capital /\ capital.is_streaming
          /\ upstream'.sock = "open"
          /\ upstream'.attempts = upstream.attempts
          /\ upstream'.delays = upstream.delays
          /\ upstream'.forwarded = upstream.forwarded
          /\ price_history' = price_history /\ sent' = sent /\ nticks' = nticks
          /\ task'[FeedTask].pc = "idle"
    /\ (CallbackRaised' /\ ~CallbackRaised) =>
          /\ loop' = loop /\ loop.pc = "read_wait"
          /\ capital' = capital /\ capital.is_streaming
          /\ upstream' = upstream /\ upstream.sock = "open"
          /\ task'[FeedTask].pc = "idle"
\* C20: handling a malformed or unrecognised frame leaves the loop reading
\* the same open socket, with is_streaming True, no attempt or delay
\* consumed and no tick forwarded or sent; and so does an exception raised
\* by the price callback.
C20_BadFrameDropped == [][C20_Step]_vars

C20_Witness ==
    /\ CallbackRaised /\ loop.pc = "read_wait" /\ capital.is_streaming
    /\ BadFrame(upstream.frame) /\ upstream.frame.kind = "quote"
    /\ upstream.nframes = 2 /\ Len(upstream.forwarded) = 1

\* ---- the life cycle of the upstream client (SpecStop)
Stopped == task[StopTask].pc = "done"

\* C21: once stop_streaming or cleanup has completed, the loop makes no new
\* connection attempt, no upstream socket is open, and is_streaming is
\* False, in that state and in every later one
C21_StopIsFinal ==
    [][Stopped =>
         /\ upstream'.attempts = upstream.attempts
         /\ upstream.sock # "open" /\ upstream'.sock # "open"
         /\ ~capital.is_streaming /\ ~capital'.is_streaming]_vars

\* tasks running _streaming_loop that have not returned
LiveLoops == upstream.spawned - (IF loop.pc = "done" THEN 1 ELSE 0)

\* C27: at most one streaming loop exists for the service at any time,
\* whatever the sequence of start_streaming and stop_streaming calls
C27_OneLoop == LiveLoops <= 1

\* ---- one run of the streaming loop (SpecStream)
RECURSIVE Pow2(_)
Pow2(n) == IF n = 0 THEN 1 ELSE 2 * Pow2(n - 1)

C28_Inv ==
    /\ upstream.connects <= upstream.attempts
    /\ upstream.attempts <= MAX_RETRIES
    /\ loop.pc # "init" =>
          /\ loop.attempt = upstream.attempts - 1
          /\ loop.retry_delay = Pow2(loop.attempt)
    /\ Len(upstream.delays) =
          IF loop.pc = "sleep_wait" THEN upstream.attempts
          ELSE Max(upstream.attempts - 1, 0)
    /\ \A k \in 1..Len(upstream.delays) : upstream.delays[k] = Pow2(k - 1)
    /\ loop.pc = "done" => upstream.attempts = MAX_RETRIES /\ upstream.sock # "open"

C28_Step ==
    loop.pc = "done" =>
        /\ loop' = loop
        /\ upstream'.attempts = upstream.attempts
        /\ upstream'.connects = upstream.connects
        /\ upstream'.sock = upstream.sock

\* C28: one run of the loop makes at most 5 connection attempts, the ones
\* that connected and streamed included; a successful connection resets
\* neither the attempt counter nor the delay, so the k-th wait is 2^(k-1)
\* whatever happened before; once the 5th attempt has ended the loop has
\* returned and nothing connects again
C28_FiveAttemptsPerRun == [](C28_Inv) /\ [][C28_Step]_vars

\* all five attempts connected and streamed, and the loop has returned
C28_Witness ==
    /\ loop.pc = "done"
    /\ upstream.connects = MAX_RETRIES
    /\ upstream.delays = <<1, 2, 4, 8>>
    /\ upstream.forwarded # <<>>

\* ---- overlapping disconnects and the two registries
\* the KeyError of line 100 has left a disconnect call of task t
DisconnectRaised(t) ==
    IF t = SweepTask THEN task[t].loc.errors > 0
    ELSE IF t = FeedTask \/ t = StopTask THEN FALSE
    ELSE task[t].loc.outcome = "raised"

\* C24: disconnect calls for one id that overlap at `await
\* websocket.close()` all complete without raising: no caller (endpoint,
\* sweeper, manager cleanup) ever sees an exception from disconnect
C24_OverlappingDisconnects == \A t \in Tasks : ~DisconnectRaised(t)

\* C25: in every state, at every await of every operation, connections
\* and connection_info hold exactly the same ids
C25_SameKeys == InfoKeys(connection_info) = SeqSet(connections)

\* a disconnect has raised on an id another task removed, the feed is
\* suspended in a send, a client is suspended inside connect, and another
\* is registered
C25_Witness ==
    /\ \E t \in Clients : DisconnectRaised(t)
    /\ task[FeedTask].pc = "send_wait"
    /\ connections # <<>>
    /\ C25_SameKeys

\* ---- subscribers that stopped their stream (SpecActive)
Inactive(c) == Registered(c) /\ ~InfoOf(c).is_active

\* C23: when a new tick arrives, a subscriber whose stop_streaming has been
\* handled (and no start_streaming since) is not sent its
\* gold_price_update
C23_ActiveOnly ==
    [][\A c \in Clients :
          (Inactive(c) /\ nticks' = nticks + 1)
              => (Len(sent'[c]) > Len(sent[c])
                    => sent'[c][Len(sent'[c])] # TickMsg(nticks'))]_vars

\* ---- what connect returns (Spec)
ConnectReturns(c) ==
    task[c].loc.outcome # "returned" /\ task'[c].loc.outcome = "returned"

\* C26: at the moment connect returns an id to the endpoint, the id is in
\* connections and in connection_info, also when the welcome or the
\* replay could not be sent
C26_ReturnedIdRegistered ==
    [][\A c \in Clients :
          ConnectReturns(c) =>
              /\ task'[c].loc.connection_id \in SeqSet(connections')
              /\ task'[c].loc.connection_id \in InfoKeys(connection_info')]_vars

\* ---- a subscriber whose send never completes (FairSpecSlow)
\* the price callback is running a broadcast that d was part of from the
\* start and that has not reached d yet
AwaitsTick(d) ==
    /\ task[FeedTask].pc # "idle"
    /\ d \in task[FeedTask].loc.atStart
    /\ TickMsg(task[FeedTask].loc.tick) \notin SeqSet(sent[d])

\* C22: while the send to one subscriber stays pending, every other
\* subscriber of the running broadcast is eventually sent the tick, and
\* the price callback eventually returns, so that the upstream loop reads
\* its next frame
C22_SlowSubscriberDoesNotStall ==
    /\ \A d \in Clients \ {SlowClient} : AwaitsTick(d) ~> ~AwaitsTick(d)
    /\ (task[FeedTask].pc # "idle") ~> (task[FeedTask].pc = "idle")

\* ---- the historical data fetcher (SpecFetch)
\* C29: one call of _fetch_for_epic issues at most max_pages page requests,
\* whatever the responses are
C29_AtMostMaxPages == fetch.pc # "idle" => fetch.requests <= fetch.max_pages

\* ---- the rate limiter (SpecLimit)
\* requests of ip on non-exempt paths passed to the application in the 60
\* seconds that end at t (the window of line 38: t - 60 < req_time <= t)
PassedInWindow(ip, t) ==
    Cardinality({i \in 1..Len(limiter.passed[ip]) :
                    /\ limiter.passed[ip][i] > t - RATE_WINDOW
                    /\ limiter.passed[ip][i] <= t})

C30_Window ==
    \A ip \in ClientIPs : \A t \in 0..limiter.time :
        PassedInWindow(ip, t) <= limiter.calls_per_minute

Recorded(l, ip) == IF ip \in DOMAIN l.client_requests THEN l.client_requests[ip] ELSE <<>>

C30_Step ==
    limiter'.nreq = limiter.nreq + 1 =>
        LET r == limiter'.last
        IN  /\ r.path \in ExemptPaths =>
                  /\ r.status = 200
                  /\ limiter'.client_requests = limiter.client_requests
                  /\ limiter'.passed = limiter.passed
            /\ r.status = 429 =>
                  /\ limiter'.passed = limiter.passed
                  /\ Recorded(limiter', r.ip) =
                         Prune(Recorded(limiter, r.ip), limiter.time - RATE_WINDOW)
            /\ (r.path \notin ExemptPaths /\ r.status = 200) =>
                  /\ limiter'.passed[r.ip] = Append(limiter.passed[r.ip], limiter.time)
                  /\ Recorded(limiter', r.ip) =
                         Append(Prune(Recorded(limiter, r.ip), limiter.time - RATE_WINDOW),
                                limiter.time)

\* C30: for every client and every window of 60 seconds, at most
\* calls_per_minute requests on non-exempt paths are passed on; a request
\* answered with 429 is not recorded; a request to /health, /docs or
\* /redoc is passed on and not recorded
C30_RateLimit == [](C30_Window) /\ [][C30_Step]_vars

\* a client that used up its calls is rejected 59 seconds later, and the
\* other client has been served meanwhile
C30_Witness ==
    \E ip \in ClientIPs :
        /\ limiter.last.ip = ip /\ limiter.last.status = 429
        /\ Len(limiter.passed[ip]) = limiter.calls_per_minute
        /\ limiter.time = limiter.passed[ip][1] + RATE_WINDOW - 1
        /\ \E other \in ClientIPs \ {ip} : limiter.passed[other] # <<>>

====
